---- MODULE Spec2Model ----
(***************************************************************************)
(* Model of goc's build descriptor (pkg/build/build.go) and of the agent   *)
(* listing client (pkg/client/client.go).                                  *)
(*                                                                         *)
(* Strings are sequences of one-character strings, so that concatenation,  *)
(* slicing, path splitting and cleaning are computed character by          *)
(* character as the Go code and its library calls compute them.            *)
(***************************************************************************)
EXTENDS Integers, Sequences, FiniteSets, TLC

VARIABLES
    cwd,        \* the process's working directory, as os.Getwd reports it
    cwdOk,      \* whether os.Getwd succeeds
    osEnv,      \* the parent process's environment, a sequence of "K=V" entries
    b,          \* the descriptor the caller holds: a Build record, or Nil
    ret,        \* what the last operation returned: [path, err]
    lastOp,     \* the last operation invoked, with its arguments
    trace,      \* the methods the last operation invoked, in order
    proc,       \* the last exec.Cmd started by Build or Run, or Nil
    alive,      \* FALSE once log.Fatalf has terminated the process
    tmpFs,      \* the temporary directories relocation has created
    hist,       \* history: flags and Target at construction, Build/Run counts
    outArg,     \* SpecPath: the outputDir argument under study
    pair,       \* SpecPath: two descriptors built from the same arguments
    cl          \* SpecClient: the state of one ListAgents call

vars == <<cwd, cwdOk, osEnv, b, ret, lastOp, trace, proc, alive, tmpFs, hist, outArg, pair, cl>>

\* Go's nil, for a *Build, an error chain and the exec.Cmd not yet started
NilBuild == [nil |-> TRUE]
NoErr == <<>>
NoProc == [nil |-> TRUE]

(***************************************************************************)
(* Bounds of the model.                                                    *)
(***************************************************************************)
MaxCwdLen == 4      \* longest working directory, in characters
MaxOutLen == 3      \* longest outputDir argument in SpecPath
MaxPkgLen == 3      \* longest package specifier
MaxBuilds == 3      \* Build invocations per descriptor
MaxRuns == 2        \* Run invocations per descriptor
MaxIdLen == 2       \* longest agent id
MaxCmdLen == 18     \* longest agent command line
MaxWidth == 30      \* widest terminal

(***************************************************************************)
(* Strings.                                                                *)
(***************************************************************************)
PathChars == {"/", ".", "_", "a"}

RECURSIVE StrsOfLen(_, _)
StrsOfLen(chars, n) ==
    IF n = 0 THEN {<<>>}
    ELSE {<<c>> \o s : c \in chars, s \in StrsOfLen(chars, n - 1)}

StrsUpTo(chars, n) == UNION {StrsOfLen(chars, k) : k \in 0..n}

HasPrefix(s, p) == Len(s) >= Len(p) /\ SubSeq(s, 1, Len(p)) = p

\* a replacement of the first occurrence only (strings.Replace with n = 1)
RECURSIVE ReplaceAll_First(_, _, _)
ReplaceAll_First(s, old, new) ==
    IF s = <<>> THEN <<>>
    ELSE IF Head(s) = old THEN <<new>> \o Tail(s)
    ELSE <<Head(s)>> \o ReplaceAll_First(Tail(s), old, new)

\* strings.ReplaceAll(s, old, new) for one-character old and new
RECURSIVE ReplaceAll(_, _, _)
ReplaceAll(s, old, new) ==
    IF s = <<>> THEN <<>>
    ELSE <<IF Head(s) = old THEN new ELSE Head(s)>> \o ReplaceAll(Tail(s), old, new)

(***************************************************************************)
(* path/filepath on a Unix system.                                         *)
(***************************************************************************)
\* strings.LastIndex(path, "/") + 1: the length of the directory part
RECURSIVE LastSlash(_, _)
LastSlash(path, i) ==
    IF i = 0 THEN 0
    ELSE IF path[i] = "/" THEN i
    ELSE LastSlash(path, i - 1)

\* filepath.Split: <<dir, file>> with path = dir + file
Split(path) ==
    LET i == LastSlash(path, Len(path))
    IN  <<SubSeq(path, 1, i), SubSeq(path, i + 1, Len(path))>>

\* the elements of a path between its separators, empty ones included
RECURSIVE Fields(_)
Fields(path) ==
    IF path = <<>> THEN << <<>> >>
    ELSE LET rest == Fields(Tail(path))
         IN  IF Head(path) = "/" THEN << <<>> >> \o rest
             ELSE << <<Head(path)>> \o Head(rest) >> \o Tail(rest)

DotDot == <<".", ".">>

\* filepath.Clean's elimination of "", "." and ".." elements
RECURSIVE Resolve(_, _, _)
Resolve(fs, stack, rooted) ==
    IF fs = <<>> THEN stack
    ELSE LET f == Head(fs)
         IN  CASE f = <<>> \/ f = <<".">> -> Resolve(Tail(fs), stack, rooted)
               [] f = DotDot ->
                    IF stack # <<>> /\ stack[Len(stack)] # DotDot
                    THEN Resolve(Tail(fs), SubSeq(stack, 1, Len(stack) - 1), rooted)
                    ELSE IF rooted THEN Resolve(Tail(fs), stack, rooted)
                    ELSE Resolve(Tail(fs), Append(stack, f), rooted)
               [] OTHER -> Resolve(Tail(fs), Append(stack, f), rooted)

RECURSIVE JoinFields(_)
JoinFields(fs) ==
    IF fs = <<>> THEN <<>>
    ELSE IF Len(fs) = 1 THEN fs[1]
    ELSE fs[1] \o <<"/">> \o JoinFields(Tail(fs))

\* filepath.Clean
Clean(path) ==
    IF path = <<>> THEN <<".">>
    ELSE LET rooted == path[1] = "/"
             body == JoinFields(Resolve(Fields(path), <<>>, rooted))
         IN  IF rooted THEN <<"/">> \o body
             ELSE IF body = <<>> THEN <<".">> ELSE body

\* filepath.Join(a, c): from the first non-empty element on, joined and cleaned
Join(a, c) ==
    IF a # <<>> THEN Clean(a \o <<"/">> \o c)
    ELSE IF c # <<>> THEN Clean(c)
    ELSE <<>>

IsAbs(path) == path # <<>> /\ path[1] = "/"

\* filepath.Abs: [path, err]; it asks for the working directory only for a
\* relative path
Abs(path, wd, wdOk) ==
    IF IsAbs(path) THEN [path |-> Clean(path), err |-> <<>>]
    ELSE IF ~wdOk THEN [path |-> <<>>, err |-> <<"ErrGetwd">>]
    ELSE [path |-> Join(wd, path), err |-> <<>>]

(***************************************************************************)
(* Errors.  A Go error is modelled as the chain errors.Unwrap walks: the   *)
(* message of fmt.Errorf first, the wrapped error after it; <<>> is nil.   *)
(***************************************************************************)
ErrWrongPackageTypeForBuild == <<"ErrWrongPackageTypeForBuild">>
ErrWrongCallSequence == <<"ErrWrongCallSequence">>

\* fmt.Errorf(msg + ": %w", err)
Wrap(msg, err) == <<msg>> \o err

\* errors.Is(err, target) for a sentinel target
ErrorsIs(err, target) == \E i \in 1..Len(err) : <<err[i]>> = target

(***************************************************************************)
(* The environment: a sequence of "K=V" strings, as os.Environ returns it. *)
(***************************************************************************)
GOPATHEq == <<"G", "O", "P", "A", "T", "H", "=">>
HOMEEq == <<"H", "O", "M", "E", "=">>

\* fmt.Sprintf("GOPATH=%v", v)
GopathEntry(v) == GOPATHEq \o v

\* the value a process sees for a variable: the last entry wins, as
\* os/exec deduplicates cmd.Env; <<>> when the variable is unset
RECURSIVE Getenv(_, _)
Getenv(env, keyEq) ==
    IF env = <<>> THEN <<>>
    ELSE LET e == env[Len(env)]
         IN  IF HasPrefix(e, keyEq) THEN SubSeq(e, Len(keyEq) + 1, Len(e))
             ELSE Getenv(SubSeq(env, 1, Len(env) - 1), keyEq)

(***************************************************************************)
(* The Build descriptor.                                                   *)
(***************************************************************************)
\* &Build{BuildFlags: buildflags, Packages: packages}: every other field zero
NewDescriptor(buildflags, packages) ==
    [Pkgs |-> {}, NewGOPATH |-> <<>>, OriGOPATH |-> <<>>, TmpDir |-> <<>>,
     TmpWorkingDir |-> <<>>, IsMod |-> FALSE, Root |-> <<>>, Target |-> <<>>,
     BuildFlags |-> buildflags, Packages |-> packages,
     GoRunExecFlag |-> <<>>, GoRunArguments |-> <<>>]

\* a validator that accepts every specifier starting with "."
validatePackageForBuild_Prefix(d) == HasPrefix(d.Packages, <<".">>)

validatePackageForBuild(d) == d.Packages = <<".">>

\* the temporary directory relocation creates
TmpRoot == <<"/", "t">>

RelocOutcomes == {"module", "legacy", "fail"}

\* MvProjectsToTmp: relocation into the temporary directory.  outcome is what
\* the file system decides: the layout found, or a copy/listing failure, which
\* is fatal.  Returns the descriptor, the directories created and whether the
\* process was terminated.
MvProjectsToTmp(d, outcome, wd, env) ==
    IF outcome = "fail"
    THEN [b |-> d, created |-> {}, fatal |-> TRUE]
    ELSE [b |-> [d EXCEPT !.Pkgs = {<<".">>},
                          !.TmpDir = TmpRoot,
                          !.TmpWorkingDir = TmpRoot \o wd,
                          !.IsMod = (outcome = "module"),
                          !.OriGOPATH = IF outcome = "module" THEN <<>>
                                        ELSE Getenv(env, GOPATHEq),
                          !.NewGOPATH = IF outcome = "module" THEN <<>> ELSE TmpRoot,
                          !.Root = IF outcome = "module" THEN wd
                                   ELSE Getenv(env, GOPATHEq)],
          created |-> {TmpRoot}, fatal |-> FALSE]

\* a resolver without the check of TmpDir
determineOutputDir_NoGuard(d, outputDir, wd, wdOk) ==
    IF ~wdOk
    THEN [path |-> <<>>,
          err |-> Wrap("cannot get current working directory", <<"ErrGetwd">>)]
    ELSE IF outputDir = <<>>
    THEN LET last == Split(wd)[2]
             name == IF d.IsMod THEN ReplaceAll(last, "_", "-") ELSE last
         IN  [path |-> Join(wd, name), err |-> NoErr]
    ELSE Abs(outputDir, wd, wdOk)

\* a resolver that applies the module naming rule to an explicit outputDir too
determineOutputDir_NormalizeAll(d, outputDir, wd, wdOk) ==
    LET r == determineOutputDir_NoGuard(d, outputDir, wd, wdOk)
    IN  IF d.TmpDir = <<>>
        THEN [path |-> <<>>,
              err |-> Wrap("can only be called after Build.MvProjectsToTmp()",
                           ErrWrongCallSequence)]
        ELSE IF d.IsMod THEN [r EXCEPT !.path = ReplaceAll(r.path, "_", "-")]
        ELSE r

\* (b *Build) determineOutputDir(outputDir): [path, err]
determineOutputDir(d, outputDir, wd, wdOk) ==
    IF d.TmpDir = <<>>
    THEN [path |-> <<>>,
          err |-> Wrap("can only be called after Build.MvProjectsToTmp()",
                       ErrWrongCallSequence)]
    ELSE IF ~wdOk
    THEN [path |-> <<>>,
          err |-> Wrap("cannot get current working directory", <<"ErrGetwd">>)]
    ELSE IF outputDir = <<>>
    THEN LET last == Split(wd)[2]
             name == IF d.IsMod THEN ReplaceAll(last, "_", "-") ELSE last
         IN  [path |-> Join(wd, name), err |-> NoErr]
    ELSE LET a == Abs(outputDir, wd, wdOk)
         IN  IF a.err # NoErr
             THEN [path |-> <<>>,
                   err |-> Wrap("fail to transform the path to absolute path", a.err)]
             ELSE [path |-> a.path, err |-> NoErr]

\* NewBuild(buildflags, packages, outputDir): [b, err], with the methods it
\* invoked, the directories it created and whether the process was terminated
NewBuild(buildflags, packages, outputDir, reloc, wd, wdOk, env) ==
    LET d0 == NewDescriptor(buildflags, packages)
    IN  IF ~validatePackageForBuild(d0)
        THEN [b |-> NilBuild, err |-> ErrWrongPackageTypeForBuild,
              trace |-> <<"validatePackageForBuild">>, created |-> {}, fatal |-> FALSE]
        ELSE LET m == MvProjectsToTmp(d0, reloc, wd, env)
                 r == determineOutputDir(m.b, outputDir, wd, wdOk)
                 d1 == [m.b EXCEPT !.Target = r.path]
             IN  IF m.fatal
                 THEN [b |-> NilBuild, err |-> NoErr,
                       trace |-> <<"validatePackageForBuild", "MvProjectsToTmp">>,
                       created |-> m.created, fatal |-> TRUE]
                 ELSE [b |-> IF r.err # NoErr THEN NilBuild ELSE d1, err |-> r.err,
                       trace |-> <<"validatePackageForBuild", "MvProjectsToTmp",
                                   "determineOutputDir">>,
                       created |-> m.created, fatal |-> FALSE]

(***************************************************************************)
(* Build and Run.                                                          *)
(***************************************************************************)
GoBuild == <<"g", "o", " ", "b", "u", "i", "l", "d", " ">>
GoRun == <<"g", "o", " ", "r", "u", "n", " ">>
DashO == <<" ", "-", "o", " ">>
Sp == <<" ">>

ExecOutcomes == {"ok", "startfail", "waitfail"}

\* cmd.Env: the parent's environment with GOPATH appended, or left nil (the
\* child then inherits the parent's environment)
CmdEnv(d, env) ==
    IF d.NewGOPATH # <<>>
    THEN [isNil |-> FALSE, entries |-> Append(env, GopathEntry(d.NewGOPATH))]
    ELSE [isNil |-> TRUE, entries |-> <<>>]

BuildErr(outcome) ==
    CASE outcome = "startfail" -> Wrap("fail to execute", <<"StartError">>)
      [] outcome = "waitfail" -> Wrap("go build faileds", <<"ExitError">>)
      [] OTHER -> NoErr

BuildProc(d1, outcome, cmdEnv) ==
    [tool |-> "build",
     script |-> GoBuild \o d1.BuildFlags \o Sp \o d1.Packages,
     Dir |-> d1.TmpWorkingDir,
     Env |-> cmdEnv,
     outcome |-> outcome]

\* a Build that refuses a descriptor that was not relocated and resolved
Build_Guarded(d, outcome, env) ==
    IF d.TmpDir = <<>> \/ d.Target = <<>>
    THEN [b |-> d, proc |-> NoProc,
          err |-> Wrap("build before relocation", ErrWrongCallSequence),
          fatal |-> FALSE, env |-> env]
    ELSE LET d1 == [d EXCEPT !.BuildFlags = d.BuildFlags \o DashO \o d.Target]
         IN  [b |-> d1, proc |-> BuildProc(d1, outcome, CmdEnv(d1, env)),
              err |-> BuildErr(outcome), fatal |-> FALSE, env |-> env]

\* a Build that appends the output flag only when it is not yet the suffix
Build_Idempotent(d, outcome, env) ==
    LET flag == DashO \o d.Target
        has == /\ Len(d.BuildFlags) >= Len(flag)
               /\ SubSeq(d.BuildFlags, Len(d.BuildFlags) - Len(flag) + 1,
                         Len(d.BuildFlags)) = flag
        d1 == IF has THEN d ELSE [d EXCEPT !.BuildFlags = d.BuildFlags \o flag]
    IN  [b |-> d1, proc |-> BuildProc(d1, outcome, CmdEnv(d1, env)),
         err |-> BuildErr(outcome), fatal |-> FALSE, env |-> env]

\* a Build that overrides GOPATH with os.Setenv instead of cmd.Env
Build_Setenv(d, outcome, env) ==
    LET d1 == [d EXCEPT !.BuildFlags = d.BuildFlags \o DashO \o d.Target]
    IN  [b |-> d1,
         proc |-> BuildProc(d1, outcome, [isNil |-> TRUE, entries |-> <<>>]),
         err |-> BuildErr(outcome), fatal |-> FALSE,
         env |-> IF d.NewGOPATH # <<>> THEN Append(env, GopathEntry(d.NewGOPATH))
                 ELSE env]

\* a Build that redirects Target into the temporary working directory
Build_Retarget(d, outcome, env) ==
    LET d1 == [d EXCEPT !.BuildFlags = d.BuildFlags \o DashO \o d.Target,
                        !.Target = Join(d.TmpWorkingDir, Split(d.Target)[2])]
    IN  [b |-> d1, proc |-> BuildProc(d1, outcome, CmdEnv(d1, env)),
         err |-> BuildErr(outcome), fatal |-> FALSE, env |-> env]

\* (b *Build) Build(): the descriptor after the call, the command started,
\* the error returned and the parent's environment after the call
Build(d, outcome, env) ==
    LET d1 == [d EXCEPT !.BuildFlags = d.BuildFlags \o DashO \o d.Target]
    IN  [b |-> d1,
         proc |-> BuildProc(d1, outcome, CmdEnv(d1, env)),
         err |-> BuildErr(outcome),
         fatal |-> FALSE,
         env |-> env]

\* (b *Build) Run(): as Build, but a failure terminates the process
Run(d, outcome, env) ==
    [b |-> d,
     proc |-> [tool |-> "run",
               script |-> GoRun \o d.BuildFlags \o Sp \o d.GoRunExecFlag \o Sp
                          \o d.Packages \o Sp \o d.GoRunArguments,
               Dir |-> d.TmpWorkingDir,
               Env |-> CmdEnv(d, env),
               outcome |-> outcome],
     err |-> NoErr,
     fatal |-> outcome # "ok",
     env |-> env]

\* the environment the started process runs in
ChildEnv(p, env) == IF p.Env.isNil THEN env ELSE p.Env.entries

(***************************************************************************)
(* The life of one descriptor: Spec.                                       *)
(* A caller constructs a descriptor with NewBuild, or as a struct literal  *)
(* (Build and its fields are exported, and MvProjectsToTmp, Build and Run  *)
(* are exported methods), and then invokes the methods in any order.  A    *)
(* behaviour follows one descriptor from its construction on.             *)
(***************************************************************************)
FlagSet == {<<>>, <<"-", "v">>}
PackageSet == StrsUpTo({".", "/", "a"}, MaxPkgLen)
OutputDirSamples == {<<>>, <<"/", "o">>, <<"o", "_">>}
CwdSample == <<"/", "a", "_">>
EnvSamples == {<< HOMEEq \o <<"/", "h">> >>,
               << GOPATHEq \o <<"/", "g">>, HOMEEq \o <<"/", "h">> >>}

NoPair == [s \in 1..2 |-> NilBuild]
NoClient == [nil |-> TRUE]

Op(name, packages, outputDir) == [op |-> name, packages |-> packages, outputDir |-> outputDir]

Init ==
    /\ cwd = CwdSample
    /\ cwdOk \in BOOLEAN
    /\ osEnv \in EnvSamples
    /\ b = NilBuild
    /\ ret = [path |-> <<>>, err |-> NoErr]
    /\ lastOp = Op("none", <<>>, <<>>)
    /\ trace = <<>>
    /\ proc = NoProc
    /\ alive = TRUE
    /\ tmpFs = {}
    /\ hist = [origin |-> "none", flags0 |-> <<>>, target0 |-> <<>>, nBuild |-> 0,
               nRun |-> 0, env0 |-> osEnv]
    /\ outArg = <<>>
    /\ pair = NoPair
    /\ cl = NoClient

\* b, err := NewBuild(buildflags, packages, outputDir)
CallNewBuild ==
    /\ alive
    /\ hist.origin = "none"
    /\ \E buildflags \in FlagSet, packages \in PackageSet,
          outputDir \in OutputDirSamples, reloc \in RelocOutcomes :
          LET r == NewBuild(buildflags, packages, outputDir, reloc, cwd, cwdOk, osEnv)
          IN  /\ b' = IF r.fatal THEN b ELSE r.b
              /\ ret' = [path |-> <<>>, err |-> r.err]
              /\ lastOp' = Op("NewBuild", packages, outputDir)
              /\ trace' = r.trace
              /\ alive' = ~r.fatal
              /\ tmpFs' = tmpFs \cup r.created
              /\ hist' = IF r.fatal \/ r.b = NilBuild THEN hist
                         ELSE [hist EXCEPT !.origin = "NewBuild",
                                           !.flags0 = buildflags,
                                           !.target0 = r.b.Target]
    /\ UNCHANGED <<cwd, cwdOk, osEnv, proc, outArg, pair, cl>>

\* b := &Build{BuildFlags: buildflags, Packages: ".", IsMod: isMod}
MakeLiteral ==
    /\ alive
    /\ hist.origin = "none"
    /\ \E buildflags \in FlagSet, isMod \in BOOLEAN :
          /\ b' = [NewDescriptor(buildflags, <<".">>) EXCEPT !.IsMod = isMod]
          /\ lastOp' = Op("literal", <<".">>, <<>>)
          /\ hist' = [hist EXCEPT !.origin = "literal", !.flags0 = buildflags]
    /\ ret' = [path |-> <<>>, err |-> NoErr]
    /\ trace' = <<>>
    /\ UNCHANGED <<cwd, cwdOk, osEnv, proc, alive, tmpFs, outArg, pair, cl>>

\* b.MvProjectsToTmp()
CallMvProjectsToTmp ==
    /\ alive
    /\ b # NilBuild
    /\ \E reloc \in RelocOutcomes :
          LET m == MvProjectsToTmp(b, reloc, cwd, osEnv)
          IN  /\ b' = m.b
              /\ alive' = ~m.fatal
              /\ tmpFs' = tmpFs \cup m.created
    /\ ret' = [path |-> <<>>, err |-> NoErr]
    /\ lastOp' = Op("MvProjectsToTmp", b.Packages, <<>>)
    /\ trace' = <<"MvProjectsToTmp">>
    /\ UNCHANGED <<cwd, cwdOk, osEnv, proc, hist, outArg, pair, cl>>

\* dir, err := b.determineOutputDir(outputDir)
CallDetermineOutputDir ==
    /\ alive
    /\ b # NilBuild
    /\ \E outputDir \in OutputDirSamples :
          /\ ret' = determineOutputDir(b, outputDir, cwd, cwdOk)
          /\ lastOp' = Op("determineOutputDir", b.Packages, outputDir)
    /\ trace' = <<"determineOutputDir">>
    /\ UNCHANGED <<cwd, cwdOk, osEnv, b, proc, alive, tmpFs, hist, outArg, pair, cl>>

\* err := b.Build()
CallBuild ==
    /\ alive
    /\ b # NilBuild
    /\ hist.nBuild < MaxBuilds
    /\ \E outcome \in ExecOutcomes :
          LET r == Build(b, outcome, osEnv)
          IN  /\ b' = r.b
              /\ proc' = r.proc
              /\ ret' = [path |-> <<>>, err |-> r.err]
              /\ alive' = ~r.fatal
              /\ osEnv' = r.env
    /\ lastOp' = Op("Build", b.Packages, <<>>)
    /\ trace' = <<"Build">>
    /\ hist' = [hist EXCEPT !.nBuild = @ + 1]
    /\ UNCHANGED <<cwd, cwdOk, tmpFs, outArg, pair, cl>>

\* b.Run()
CallRun ==
    /\ alive
    /\ b # NilBuild
    /\ hist.nRun < MaxRuns
    /\ \E outcome \in ExecOutcomes :
          LET r == Run(b, outcome, osEnv)
          IN  /\ b' = r.b
              /\ proc' = r.proc
              /\ ret' = [path |-> <<>>, err |-> r.err]
              /\ alive' = ~r.fatal
              /\ osEnv' = r.env
    /\ lastOp' = Op("Run", b.Packages, <<>>)
    /\ trace' = <<"Run">>
    /\ hist' = [hist EXCEPT !.nRun = @ + 1]
    /\ UNCHANGED <<cwd, cwdOk, tmpFs, outArg, pair, cl>>

Next ==
    \/ CallNewBuild
    \/ MakeLiteral
    \/ CallMvProjectsToTmp
    \/ CallDetermineOutputDir
    \/ CallBuild
    \/ CallRun

Spec == Init /\ [][Next]_vars

(***************************************************************************)
(* Properties of the descriptor's life, checked under Spec.                *)
(***************************************************************************)
\* a process was started: cmd.Start succeeded
Spawned(p) == p # NoProc /\ p.outcome # "startfail"

RECURSIVE Rep(_, _)
Rep(str, k) == IF k = 0 THEN <<>> ELSE str \o Rep(str, k - 1)

\* C1: NewBuild with a package specifier other than "." returns a nil
\* descriptor and ErrWrongPackageTypeForBuild, having invoked only the
\* validation: MvProjectsToTmp and determineOutputDir are not invoked, no
\* temporary directory is created and the process goes on.
C1_InvalidSpecRejectedBeforeRelocation ==
    [][(lastOp'.op = "NewBuild" /\ lastOp'.packages # <<".">>)
         => /\ b' = NilBuild
            /\ ret'.err = ErrWrongPackageTypeForBuild
            /\ ret'.path = <<>>
            /\ trace' = <<"validatePackageForBuild">>
            /\ tmpFs' = tmpFs
            /\ alive']_vars

C1_Witness ==
    /\ lastOp.op = "NewBuild"
    /\ lastOp.packages = <<".", "/", "a">>
    /\ b = NilBuild
    /\ ret.err = ErrWrongPackageTypeForBuild
    /\ tmpFs = {}

\* C2: determineOutputDir on a descriptor whose TmpDir is empty returns the
\* empty path and an error wrapping ErrWrongCallSequence, whatever outputDir
\* and IsMod are; NewBuild returns a nil descriptor whenever it returns an
\* error; and every descriptor NewBuild returns has a non-empty TmpDir.
C2_ResolveBeforeRelocationFails ==
    /\ (lastOp.op = "determineOutputDir" /\ b.TmpDir = <<>>)
         => (ret.path = <<>> /\ ErrorsIs(ret.err, ErrWrongCallSequence))
    /\ (lastOp.op = "NewBuild" /\ ret.err # NoErr) => b = NilBuild
    /\ (hist.origin = "NewBuild" /\ b # NilBuild) => b.TmpDir # <<>>

C2_Witness ==
    /\ lastOp.op = "determineOutputDir"
    /\ lastOp.outputDir = <<"/", "o">>
    /\ b.TmpDir = <<>>
    /\ b.IsMod
    /\ ret.path = <<>>
    /\ ErrorsIs(ret.err, ErrWrongCallSequence)

\* C3 as stated: Build or Run on a descriptor that was not relocated, or
\* whose Target was not resolved, fails with ErrWrongCallSequence and starts
\* no toolchain process.
C3_BuildRunRejectOutOfOrder ==
    (lastOp.op \in {"Build", "Run"} /\ (b.TmpDir = <<>> \/ b.Target = <<>>))
        => (ErrorsIs(ret.err, ErrWrongCallSequence) /\ ~Spawned(proc))

\* C3, amended: determineOutputDir is the only operation that checks the
\* call order, and ErrWrongCallSequence is returned only by it, on a
\* descriptor whose TmpDir is empty.  Build and Run check nothing: every
\* invocation, also on a descriptor that was never relocated or resolved,
\* executes the toolchain command in TmpWorkingDir and never returns
\* ErrWrongCallSequence.
C3_OnlyResolverChecksOrder ==
    /\ ErrorsIs(ret.err, ErrWrongCallSequence)
         => (lastOp.op = "determineOutputDir" /\ b.TmpDir = <<>>)
    /\ lastOp.op \in {"Build", "Run"}
         => /\ proc # NoProc
            /\ proc.tool = (IF lastOp.op = "Build" THEN "build" ELSE "run")
            /\ proc.Dir = b.TmpWorkingDir
            /\ ~ErrorsIs(ret.err, ErrWrongCallSequence)
            /\ (proc.outcome = "ok") <=> (ret.err = NoErr /\ alive)

C3_Witness ==
    /\ lastOp.op = "Build"
    /\ b.TmpDir = <<>>
    /\ b.Target = <<>>
    /\ Spawned(proc)
    /\ proc.outcome = "ok"
    /\ ret.err = NoErr

\* C6: after k >= 1 Build invocations BuildFlags is the flags given at
\* construction followed by exactly k copies of " -o " + Target, and the
\* command line of an invocation is "go build " + BuildFlags + " " + Packages,
\* so the first one is "go build <flags> -o <Target> .".
C6_OutputFlagAccumulates ==
    (b # NilBuild /\ hist.nBuild >= 1)
        => /\ b.BuildFlags = hist.flags0 \o Rep(DashO \o b.Target, hist.nBuild)
           /\ lastOp.op = "Build"
                => proc.script = GoBuild \o hist.flags0
                                   \o Rep(DashO \o b.Target, hist.nBuild)
                                   \o <<" ", ".">>

C6_Witness ==
    /\ hist.origin = "NewBuild"
    /\ hist.nBuild = 2
    /\ hist.flags0 = <<"-", "v">>
    /\ b.Target = <<"/", "o">>
    /\ b.BuildFlags = <<"-", "v", " ", "-", "o", " ", "/", "o", " ", "-", "o", " ", "/", "o">>

\* C7: the process Build or Run starts runs in the parent's environment with
\* GOPATH=NewGOPATH appended when NewGOPATH is non-empty (so it sees GOPATH as
\* NewGOPATH and every other variable as the parent does), and inherits the
\* parent's environment when NewGOPATH is empty; the parent's own environment
\* is what it was when the process began.
C7_GopathOverrideScopedToChild ==
    /\ osEnv = hist.env0
    /\ lastOp.op \in {"Build", "Run"}
         => LET child == ChildEnv(proc, osEnv)
            IN  IF b.NewGOPATH # <<>>
                THEN /\ ~proc.Env.isNil
                     /\ child = osEnv \o <<GOPATHEq \o b.NewGOPATH>>
                     /\ Getenv(child, GOPATHEq) = b.NewGOPATH
                     /\ Getenv(child, HOMEEq) = Getenv(osEnv, HOMEEq)
                ELSE /\ proc.Env.isNil
                     /\ child = osEnv

C7_Witness ==
    /\ lastOp.op = "Run"
    /\ b.NewGOPATH = TmpRoot
    /\ Getenv(osEnv, GOPATHEq) = <<"/", "g">>
    /\ Getenv(ChildEnv(proc, osEnv), GOPATHEq) = TmpRoot

\* C8: the Target of a descriptor NewBuild returned is the path resolved at
\* construction, after any sequence of Build and Run invocations, and
\* NewBuild resolved it once.
C8_TargetStable ==
    /\ (hist.origin = "NewBuild" /\ b # NilBuild) => b.Target = hist.target0
    /\ lastOp.op = "NewBuild"
         => Cardinality({i \in 1..Len(trace) : trace[i] = "determineOutputDir"}) <= 1

C8_Witness ==
    /\ hist.origin = "NewBuild"
    /\ hist.nBuild >= 2
    /\ hist.nRun >= 1
    /\ b.Target = hist.target0
    /\ b.Target = <<"/", "a", "_", "/", "a", "_">>

(***************************************************************************)
(* Output path resolution: SpecPath.                                       *)
(* The working directory and the outputDir argument are drawn from all     *)
(* strings within the bounds (os.Getwd returns $PWD as it is set when it   *)
(* names the current directory, so any absolute path can be reported).     *)
(* Two descriptors are built by NewBuild from the same arguments; the      *)
(* layout relocation finds is chosen for each.                             *)
(***************************************************************************)
CwdSet == {<<"/">> \o rest : rest \in StrsUpTo(PathChars, MaxCwdLen - 1)}
OutputDirSet == StrsUpTo(PathChars, MaxOutLen)

InitPath ==
    /\ cwd \in CwdSet
    /\ cwdOk = TRUE
    /\ osEnv = << HOMEEq \o <<"/", "h">> >>
    /\ b = NilBuild
    /\ ret = [path |-> <<>>, err |-> NoErr]
    /\ lastOp = Op("none", <<>>, <<>>)
    /\ trace = <<>>
    /\ proc = NoProc
    /\ alive = TRUE
    /\ tmpFs = {}
    /\ hist = [origin |-> "none", flags0 |-> <<>>, target0 |-> <<>>, nBuild |-> 0,
               nRun |-> 0, env0 |-> osEnv]
    /\ outArg \in OutputDirSet
    /\ pair = NoPair
    /\ cl = NoClient

\* pair[s], err := NewBuild("", ".", outArg) in a project of either layout
PathNewBuild(s) ==
    /\ pair[s] = NilBuild
    /\ \E layout \in {"module", "legacy"} :
          LET r == NewBuild(<<>>, <<".">>, outArg, layout, cwd, cwdOk, osEnv)
          IN  /\ pair' = [pair EXCEPT ![s] = r.b]
              /\ tmpFs' = tmpFs \cup r.created
    /\ UNCHANGED <<cwd, cwdOk, osEnv, b, ret, lastOp, trace, proc, alive, hist, outArg, cl>>

NextPath == \E s \in 1..2 : PathNewBuild(s)

SpecPath == InitPath /\ [][NextPath]_vars

\* the characters of a path after its last separator
LastSegment(path) ==
    LET k == CHOOSE n \in 0..Len(path) :
                 /\ \A i \in (Len(path) - n + 1)..Len(path) : path[i] # "/"
                 /\ (n < Len(path) => path[Len(path) - n] = "/")
    IN  SubSeq(path, Len(path) - k + 1, Len(path))

\* a name with a hyphen at every place of an underscore
Hyphenated(name) == [i \in 1..Len(name) |-> IF name[i] = "_" THEN "-" ELSE name[i]]

\* C4: with no outputDir, the Target NewBuild resolves is the working
\* directory joined (filepath.Join) with the default name: the last segment of
\* the working directory, with every underscore replaced by a hyphen in a
\* module project and unmodified in a legacy one.  For a working directory in
\* clean form, other than the root, the Target is literally the working
\* directory, a separator and that name.
C4_DefaultNameFromWorkingDir ==
    outArg = <<>> =>
        \A s \in 1..2 :
            pair[s] # NilBuild =>
                LET seg == LastSegment(cwd)
                    name == IF pair[s].IsMod THEN Hyphenated(seg) ELSE seg
                IN  /\ pair[s].Target = Clean(cwd \o <<"/">> \o name)
                    /\ (cwd = Clean(cwd) /\ cwd # <<"/">>)
                         => /\ pair[s].Target = cwd \o <<"/">> \o name
                            /\ Len(name) = Len(seg)
                            /\ pair[s].IsMod => \A i \in 1..Len(name) : name[i] # "_"
                            /\ ~pair[s].IsMod => name = seg

C4_Witness ==
    /\ outArg = <<>>
    /\ cwd = <<"/", "_", "_">>
    /\ pair[1] # NilBuild /\ ~pair[1].IsMod
    /\ pair[1].Target = <<"/", "_", "_", "/", "_", "_">>
    /\ pair[2] # NilBuild /\ pair[2].IsMod
    /\ pair[2].Target = <<"/", "_", "_", "/", "-", "-">>

\* C5: with a non-empty outputDir, the Target NewBuild resolves is the
\* absolute form of outputDir (its clean form when it is absolute, else the
\* working directory joined with it); no hyphen is put in place of an
\* underscore, and two descriptors that differ in IsMod and NewGOPATH get the
\* same Target.
C5_ExplicitDirIndependentOfLayout ==
    outArg # <<>> =>
        /\ \A s \in 1..2 :
              pair[s] # NilBuild =>
                  /\ pair[s].Target = (IF outArg[1] = "/" THEN Clean(outArg)
                                       ELSE Clean(cwd \o <<"/">> \o outArg))
                  /\ pair[s].Target[1] = "/"
                  /\ \A i \in 1..Len(pair[s].Target) : pair[s].Target[i] # "-"
        /\ (pair[1] # NilBuild /\ pair[2] # NilBuild)
              => pair[1].Target = pair[2].Target

C5_Witness ==
    /\ outArg = <<"_", "a">>
    /\ cwd = <<"/", "a", "_">>
    /\ pair[1] # NilBuild /\ pair[2] # NilBuild
    /\ pair[1].IsMod # pair[2].IsMod
    /\ pair[1].NewGOPATH # pair[2].NewGOPATH
    /\ pair[1].Target = <<"/", "a", "_", "/", "_", "a">>
    /\ pair[2].Target = pair[1].Target

(***************************************************************************)
(* The agent listing client: SpecClient.                                   *)
(***************************************************************************)
\* the error classes isNetworkError tells apart: io.EOF itself, a value whose
\* type implements net.Error, and every other error
ErrEOF == <<"io.EOF">>
ErrNet == <<"net.Error">>
ErrOther == <<"other">>

\* an isNetworkError that takes every error for a network error
isNetworkError_Always(err) == err # NoErr

\* isNetworkError(err)
isNetworkError(err) == err = ErrEOF \/ err = ErrNet

\* what one request meets once the HTTP client has accepted it: a response
\* whose body is or is not the JSON of an agent list, a failure of the round
\* trip or of the body read with a net.Error ("neterr"), or a failure of the
\* body read with an error that is no net.Error ("other").  ioutil.ReadAll
\* turns io.EOF into nil and http.Client.Do wraps every error in a
\* *url.Error, so io.EOF itself is never returned
DoOutcomes == {"valid", "invalid", "neterr", "other"}

\* CoverAgentsListAPI = "/v2/rpcagents"
CoverAgentsListAPI == <<"/", "v", "2", "/", "r", "p", "c", "a", "g", "e", "n", "t", "s">>

LowerLetters ==
    <<"a", "b", "c", "d", "e", "f", "g", "h", "i", "j", "k", "l", "m",
      "n", "o", "p", "q", "r", "s", "t", "u", "v", "w", "x", "y", "z">>
UpperLetters ==
    <<"A", "B", "C", "D", "E", "F", "G", "H", "I", "J", "K", "L", "M",
      "N", "O", "P", "Q", "R", "S", "T", "U", "V", "W", "X", "Y", "Z">>
Digits == {"0", "1", "2", "3", "4", "5", "6", "7", "8", "9"}

\* getScheme's classes: [a-zA-Z], and [0-9+-.]
SchemeLetters == {LowerLetters[i] : i \in 1..26} \cup {UpperLetters[i] : i \in 1..26}
SchemeMarks == Digits \cup {"+", "-", "."}

\* strings.ToLower
ToLower(str) ==
    [i \in 1..Len(str) |->
        IF \E k \in 1..26 : UpperLetters[k] = str[i]
        THEN LowerLetters[CHOOSE k \in 1..26 : UpperLetters[k] = str[i]]
        ELSE str[i]]

\* net/url's getScheme: the place of the ":" that ends the scheme, 0 when the
\* text has no scheme, -1 when it starts with ":" (missing protocol scheme)
RECURSIVE SchemeEnd(_, _)
SchemeEnd(raw, i) ==
    IF i > Len(raw) THEN 0
    ELSE IF raw[i] \in SchemeLetters THEN SchemeEnd(raw, i + 1)
    ELSE IF raw[i] \in SchemeMarks THEN (IF i = 1 THEN 0 ELSE SchemeEnd(raw, i + 1))
    ELSE IF raw[i] = ":" THEN (IF i = 1 THEN -1 ELSE i)
    ELSE 0

\* strings.Index(str, c), 0 when c does not occur; strings.LastIndex likewise
Index(str, c) ==
    IF \E i \in 1..Len(str) : str[i] = c
    THEN CHOOSE i \in 1..Len(str) : str[i] = c /\ \A j \in 1..(i - 1) : str[j] # c
    ELSE 0
LastIndex(str, c) ==
    IF \E i \in 1..Len(str) : str[i] = c
    THEN CHOOSE i \in 1..Len(str) : str[i] = c /\ \A j \in (i + 1)..Len(str) : str[j] # c
    ELSE 0

HexLow == Digits \ {"8", "9"}
Hex == Digits \cup {"a", "b", "c", "d", "e", "f", "A", "B", "C", "D", "E", "F"}

\* whether net/url's unescape accepts str: every "%" is followed by two
\* hexadecimal digits, and in a host by no byte below 0x80 but "%25"
unescapeOk(str, host) ==
    \A i \in 1..Len(str) :
        str[i] = "%" =>
            /\ i + 2 <= Len(str)
            /\ str[i + 1] \in Hex
            /\ str[i + 2] \in Hex
            /\ host => (str[i + 1] \notin HexLow \/ SubSeq(str, i, i + 2) = <<"%", "2", "5">>)

\* the byte two hexadecimal digits stand for: "%" for 25, and a byte of 0x80
\* or more written "\xhh" with lower-case digits
unhexByte(hi, lo) ==
    IF <<hi, lo>> = <<"2", "5">> THEN "%"
    ELSE "\\x" \o ToLower(<<hi>>)[1] \o ToLower(<<lo>>)[1]

\* net/url's unescape(str, encodeHost) on a text unescapeOk accepts as a host:
\* every "%HH" replaced by its byte
RECURSIVE unescape(_, _)
unescape(str, i) ==
    IF i > Len(str) THEN <<>>
    ELSE IF str[i] = "%"
         THEN <<unhexByte(str[i + 1], str[i + 2])>> \o unescape(str, i + 3)
    ELSE <<str[i]>> \o unescape(str, i + 1)

\* validOptionalPort(port): empty, or ":" and digits
validOptionalPort(port) ==
    \/ port = <<>>
    \/ port[1] = ":" /\ \A i \in 2..Len(port) : port[i] \in Digits

\* the error of parseAuthority(authority) for an authority without user
\* information and without brackets
parseAuthority(authority) ==
    IF /\ LastIndex(authority, ":") # 0
       /\ ~validOptionalPort(SubSeq(authority, LastIndex(authority, ":"), Len(authority)))
    THEN <<"invalid port">>
    ELSE IF ~unescapeOk(authority, TRUE) THEN <<"invalid URL escape">>
    ELSE NoErr

\* strings.Cut(str, c): the text before the first c, and the text from it on
Before(str, c) == IF Index(str, c) = 0 THEN str ELSE SubSeq(str, 1, Index(str, c) - 1)
From(str, c) == IF Index(str, c) = 0 THEN <<>> ELSE SubSeq(str, Index(str, c), Len(str))

URLError(msg) == [err |-> <<msg>>, Scheme |-> <<>>, Host |-> <<>>]

\* parse, from "authority, rest = rest[2:], ..." on: the authority and the path
parseHostPath(scheme, after) ==
    IF parseAuthority(Before(after, "/")) # NoErr
    THEN [err |-> parseAuthority(Before(after, "/")), Scheme |-> <<>>, Host |-> <<>>]
    ELSE IF ~unescapeOk(From(after, "/"), FALSE) THEN URLError("invalid URL escape")
    ELSE [err |-> NoErr, Scheme |-> scheme, Host |-> unescape(Before(after, "/"), 1)]

\* parse, after the scheme and the query are cut off
parseRest(scheme, rest, viaRequest) ==
    IF ~HasPrefix(rest, <<"/">>) /\ scheme # <<>>
    THEN [err |-> NoErr, Scheme |-> scheme, Host |-> <<>>]
    ELSE IF ~HasPrefix(rest, <<"/">>) /\ viaRequest
    THEN URLError("invalid URI for request")
    ELSE IF ~HasPrefix(rest, <<"/">>) /\ Index(Before(rest, "/"), ":") # 0
    THEN URLError("first path segment in URL cannot contain colon")
    ELSE IF /\ scheme # <<>> \/ (~viaRequest /\ ~HasPrefix(rest, <<"/", "/", "/">>))
            /\ HasPrefix(rest, <<"/", "/">>)
    THEN parseHostPath(scheme, SubSeq(rest, 3, Len(rest)))
    ELSE IF ~unescapeOk(rest, FALSE) THEN URLError("invalid URL escape")
    ELSE [err |-> NoErr, Scheme |-> scheme, Host |-> <<>>]

\* net/url's parse(rawURL, viaRequest) on a text of letters, digits and
\* + - . : / % ? : the error, and the Scheme and Host of the URL
parse(rawURL, viaRequest) ==
    IF rawURL = <<>> /\ viaRequest THEN URLError("empty url")
    ELSE IF rawURL = <<"*">> THEN [err |-> NoErr, Scheme |-> <<>>, Host |-> <<>>]
    ELSE IF SchemeEnd(rawURL, 1) = -1 THEN URLError("missing protocol scheme")
    ELSE IF SchemeEnd(rawURL, 1) = 0 THEN parseRest(<<>>, Before(rawURL, "?"), viaRequest)
    ELSE parseRest(ToLower(SubSeq(rawURL, 1, SchemeEnd(rawURL, 1) - 1)),
                   Before(SubSeq(rawURL, SchemeEnd(rawURL, 1) + 1, Len(rawURL)), "?"),
                   viaRequest)

\* the error of url.ParseRequestURI(rawURL)
ParseRequestURI(rawURL) == parse(rawURL, TRUE).err

\* url.Parse(rawURL) on a text without fragment
Parse(rawURL) == parse(rawURL, FALSE)

\* NewWorker(host): the client, and whether log.Fatalf terminated the process
NewWorker(host) ==
    [client |-> [Host |-> host], fatal |-> ParseRequestURI(host) # NoErr]

http == <<"h", "t", "t", "p">>
https == <<"h", "t", "t", "p", "s">>

\* net/http's hasPort(host), for a host without brackets
hasPort(host) == LastIndex(host, ":") # 0

\* net/http's removeEmptyPort(host): the host without a trailing ":"
removeEmptyPort(host) ==
    IF hasPort(host) /\ host[Len(host)] = ":"
    THEN SubSeq(host, 1, Len(host) - 1)
    ELSE host

\* (c *client) do("GET", u, "", nil): the body read and the error.
\* http.NewRequest fails when url.Parse does, and strips an empty port from
\* the host; c.client.Do refuses a URL whose scheme is not http or https or
\* whose host is empty; both errors are *url.Error values, which implement
\* net.Error.  Otherwise the request goes out and meets the given outcome
do(u, outcome) ==
    LET req == Parse(u)
        Host == removeEmptyPort(req.Host)
    IN  IF req.err # NoErr THEN [url |-> u, body |-> "none", err |-> ErrNet]
        ELSE IF req.Scheme \notin {http, https} \/ Host = <<>>
             THEN [url |-> u, body |-> "none", err |-> ErrNet]
        ELSE CASE outcome = "neterr" -> [url |-> u, body |-> "none", err |-> ErrNet]
               [] outcome = "other" -> [url |-> u, body |-> "none", err |-> ErrOther]
               [] OTHER -> [url |-> u, body |-> outcome, err |-> NoErr]

\* a getSimpleCmdLine that keeps one character more than fits
getSimpleCmdLine_OneMore(preLen, cmdLine, term) ==
    LET width == IF term.err \/ term.width <= preLen + 16 THEN 16 + preLen
                 ELSE term.width
    IN  IF Len(cmdLine) > width - preLen
        THEN SubSeq(cmdLine, 1, width - preLen + 1)
        ELSE cmdLine

\* getSimpleCmdLine(preLen, cmdLine); term is what term.GetSize returns
getSimpleCmdLine(preLen, cmdLine, term) ==
    LET pathLen == Len(cmdLine)
        width == IF term.err \/ term.width <= preLen + 16 THEN 16 + preLen
                 ELSE term.width
    IN  IF pathLen > width - preLen
        THEN SubSeq(cmdLine, 1, width - preLen)
        ELSE cmdLine

\* the row table.Append receives for one agent
Row(agent, wide, term) ==
    IF wide
    THEN <<agent.Id, agent.RemoteIP, agent.Hostname, agent.Pid, agent.CmdLine>>
    ELSE LET preLen == Len(agent.Id) + Len(agent.RemoteIP) + 9
         IN  <<agent.Id, agent.RemoteIP, getSimpleCmdLine(preLen, agent.CmdLine, term)>>

\* (c *client) ListAgents(wide): the requests issued with their results, whether log.Fatalf
\* terminated the process, the error left after the requests, and the table
ListAgents(c, wide, first, second, agents, term) ==
    LET u == c.Host \o CoverAgentsListAPI
        r1 == do(u, first)
        retried == r1.err # NoErr /\ isNetworkError(r1.err)
        r == IF retried THEN do(u, second) ELSE r1
        requests == IF retried THEN <<r1, r>> ELSE <<r1>>
    IN  IF r.err # NoErr
        THEN [requests |-> requests, err |-> r.err, exited |-> TRUE,
              header |-> <<>>, rows |-> <<>>]
        ELSE IF r.body # "valid"
        THEN [requests |-> requests, err |-> <<"json unmarshal failed">>,
              exited |-> TRUE, header |-> <<>>, rows |-> <<>>]
        ELSE [requests |-> requests, err |-> NoErr, exited |-> FALSE,
              header |-> IF wide THEN <<"ID", "REMOTEIP", "HOSTNAME", "PID", "CMD">>
                         ELSE <<"ID", "REMOTEIP", "CMD">>,
              rows |-> [i \in 1..Len(agents) |-> Row(agents[i], wide, term)]]

Letters == <<"/", "b", "i", "n", "-", "f", "o", "=", "v", "e", "r", "y", "l", "g">>

\* a string of n characters, no two neighbours alike
Text(n) == [i \in 1..n |-> Letters[((i - 1) % Len(Letters)) + 1]]

Agent(idLen, ip, cmdLen) ==
    [Id |-> [i \in 1..idLen |-> "7"], RemoteIP |-> ip, Hostname |-> <<"h", "1">>,
     CmdLine |-> Text(cmdLen), Pid |-> <<"9", "9">>]

AgentSet == {Agent(n, ip, c) : n \in 1..MaxIdLen, ip \in {<<>>, <<"1", ".", "2">>},
                               c \in 0..MaxCmdLen}
SecondAgent == Agent(1, <<"1", ".", "2">>, MaxCmdLen)
AgentLists == {<<>>} \cup {<<a>> : a \in AgentSet} \cup {<<a, SecondAgent>> : a \in AgentSet}
\* "", "abc", "/%", "/h", "h://h", "http://:", "http://h"
HostSamples ==
    { <<>>,
      <<"a", "b", "c">>,
      <<"/", "%">>,
      <<"/", "h">>,
      <<"h", ":", "/", "/", "h">>,
      http \o <<":", "/", "/", ":">>,
      http \o <<":", "/", "/", "h">> }
Terms == {[err |-> TRUE, width |-> 0]} \cup {[err |-> FALSE, width |-> w] : w \in 1..MaxWidth}

InitClient ==
    /\ cwd = CwdSample
    /\ cwdOk = TRUE
    /\ osEnv = << HOMEEq \o <<"/", "h">> >>
    /\ b = NilBuild
    /\ ret = [path |-> <<>>, err |-> NoErr]
    /\ lastOp = Op("none", <<>>, <<>>)
    /\ trace = <<>>
    /\ proc = NoProc
    /\ alive = TRUE
    /\ tmpFs = {}
    /\ hist = [origin |-> "none", flags0 |-> <<>>, target0 |-> <<>>, nBuild |-> 0,
               nRun |-> 0, env0 |-> osEnv]
    /\ outArg = <<>>
    /\ pair = NoPair
    /\ \E agents \in AgentLists, term \in Terms, wide \in BOOLEAN :
          cl = [worker |-> FALSE, host |-> <<>>,
                called |-> FALSE, wide |-> wide, agents |-> agents, term |-> term,
                out |-> [requests |-> <<>>, err |-> NoErr, exited |-> FALSE,
                         header |-> <<>>, rows |-> <<>>]]

\* c := NewWorker(host)
CallNewWorker ==
    /\ alive
    /\ ~cl.worker
    /\ \E host \in HostSamples :
          LET w == NewWorker(host)
          IN  /\ cl' = IF w.fatal THEN cl
                        ELSE [cl EXCEPT !.worker = TRUE, !.host = w.client.Host]
              /\ alive' = ~w.fatal
    /\ UNCHANGED <<cwd, cwdOk, osEnv, b, ret, lastOp, trace, proc, tmpFs, hist, outArg, pair>>

\* c.ListAgents(wide) against a server that holds cl.agents
CallListAgents ==
    /\ alive
    /\ cl.worker
    /\ ~cl.called
    /\ \E first \in DoOutcomes, second \in DoOutcomes :
          LET r == ListAgents([Host |-> cl.host], cl.wide, first, second, cl.agents, cl.term)
          IN  /\ cl' = [cl EXCEPT !.called = TRUE, !.out = r]
              /\ alive' = ~r.exited
    /\ UNCHANGED <<cwd, cwdOk, osEnv, b, ret, lastOp, trace, proc, tmpFs, hist, outArg, pair>>

NextClient ==
    \/ CallNewWorker
    \/ CallListAgents

SpecClient == InitClient /\ [][NextClient]_vars

Max(x, y) == IF x >= y THEN x ELSE y
Min(x, y) == IF x <= y THEN x ELSE y

\* C9: one ListAgents call issues one request, and a second one exactly when
\* the first failed with io.EOF or a net.Error; it never issues a third; both
\* go to Host + "/v2/rpcagents"; the error left is that of the last request,
\* and when it is not nil the process is terminated and no table is rendered.
\* io.EOF and a net.Error are network errors, any other error is not.
\* No request is issued without a client NewWorker returned.
C9_RetriesOnceOnNetworkError ==
    /\ isNetworkError(ErrEOF) /\ isNetworkError(ErrNet) /\ ~isNetworkError(ErrOther)
    /\ ~cl.called => cl.out.requests = <<>>
    /\ cl.called =>
        LET reqs == cl.out.requests
            last == reqs[Len(reqs)]
        IN  /\ cl.worker
            /\ Len(reqs) \in {1, 2}
            /\ Len(reqs) = 2 <=> reqs[1].err \in {ErrEOF, ErrNet}
            /\ \A i \in 1..Len(reqs) : reqs[i].url = cl.host \o CoverAgentsListAPI
            /\ last.err # NoErr => /\ cl.out.err = last.err
                                   /\ cl.out.exited /\ ~alive /\ cl.out.rows = <<>>
            /\ (last.err = NoErr /\ last.body = "valid")
                 => (~cl.out.exited /\ alive /\ Len(cl.out.rows) = Len(cl.agents))

C9_Witness ==
    /\ cl.called
    /\ cl.host = http \o <<":", "/", "/", "h">>
    /\ Len(cl.out.requests) = 2
    /\ cl.out.requests[1].err = ErrNet
    /\ cl.out.requests[2].err = NoErr /\ cl.out.requests[2].body = "valid"
    /\ ~cl.out.exited
    /\ Len(cl.out.rows) = 2

\* C10 as stated: in narrow mode, with the terminal width detected, the
\* prefix length len(id)+len(remoteip)+9 plus the length of the command shown
\* is at most the detected width; with the width not detected the command
\* shown has at most 16 characters.
C10_RowWithinDetectedWidth ==
    (cl.called /\ ~cl.wide) =>
        \A i \in 1..Len(cl.out.rows) :
            LET preLen == Len(cl.agents[i].Id) + Len(cl.agents[i].RemoteIP) + 9
                shown == cl.out.rows[i][3]
            IN  IF cl.term.err THEN Len(shown) <= 16
                ELSE preLen + Len(shown) <= cl.term.width

\* C10, amended: in narrow mode the command shown is the first
\* min(len(cmdline), max(width, preLen+16) - preLen) characters of the command
\* line, where preLen = len(id)+len(remoteip)+9.  So with a detected width
\* above preLen+16 the prefix and the command together are at most the width;
\* with a detected width of at most preLen+16, or none detected, the command
\* is clipped to at most 16 characters, and the row may exceed the width.
C10_CommandClippedToWidthOrSixteen ==
    (cl.called /\ ~cl.wide) =>
        \A i \in 1..Len(cl.out.rows) :
            LET cmd == cl.agents[i].CmdLine
                preLen == Len(cl.agents[i].Id) + Len(cl.agents[i].RemoteIP) + 9
                shown == cl.out.rows[i][3]
                avail == Max(IF cl.term.err THEN 0 ELSE cl.term.width, preLen + 16) - preLen
            IN  /\ Len(shown) = Min(Len(cmd), avail)
                /\ shown = SubSeq(cmd, 1, Len(shown))
                /\ (cl.term.err \/ cl.term.width <= preLen + 16) => Len(shown) <= 16
                /\ (~cl.term.err /\ cl.term.width > preLen + 16)
                     => preLen + Len(shown) <= cl.term.width

C10_Witness ==
    /\ cl.called /\ ~cl.wide
    /\ ~cl.term.err /\ cl.term.width = 20
    /\ Len(cl.out.rows) = 1
    /\ Len(cl.agents[1].Id) = 1 /\ Len(cl.agents[1].RemoteIP) = 3
    /\ Len(cl.agents[1].CmdLine) = 18
    /\ Len(cl.out.rows[1][3]) = 16

====
